---------------------------- MODULE Spec2Model ----------------------------
(***************************************************************************)
(* A model of steg (src/index.ts): RawFile, the packed-file format, and    *)
(* StegImage, the LSB codec over an RGBA channel buffer.                   *)
(*                                                                         *)
(* Conventions.  A byte array (Uint8Array) is a sequence of 0..255; the    *)
(* code's 0-based index i is position i + 1 of the sequence.  A string is  *)
(* the sequence of its Unicode scalar values.  A thrown Error is a record  *)
(* [ok |-> FALSE, err |-> <name>]; a returned value [ok |-> TRUE, ...].    *)
(***************************************************************************)
EXTENDS Integers, Sequences, FiniteSets, TLC

(***************************************************************************)
(* Bounds of the model.                                                    *)
(***************************************************************************)
MaxNameChars == 2
MaxContent == 2
MaxPad == 2
MaxSmallPixels == 4
MaxImagePixels == 100
MaxCapacity == 40
MaxHideContent == 1
MaxBlobPixels == 4
MaxKey == 1
MaxSeed == 2
TamperSamples == 32
MaxPacked == 7
MaxHides == 2

(***************************************************************************)
(* Program constants.                                                      *)
(***************************************************************************)
ENCRYPTED_METADATA_SIZE == 28
MaxNameBytes == 255
IV_SIZE == 12
TAG_SIZE == 16

(***************************************************************************)
(* Numbers and typed arrays.                                               *)
(***************************************************************************)
Pow2(n) == 2 ^ n

Min(a, b) == IF a < b THEN a ELSE b

Max(a, b) == IF a < b THEN b ELSE a

\* a | b on the non-negative integers below 2^9 (the widest value the code ORs).
RECURSIVE BitOrN(_, _, _)
BitOrN(a, b, n) ==
    IF n = 0 THEN 0
    ELSE (IF (a % 2) = 1 \/ (b % 2) = 1 THEN 1 ELSE 0) + 2 * BitOrN(a \div 2, b \div 2, n - 1)

BitOr(a, b) == BitOrN(a, b, 9)

\* arr[i] of a typed array: undefined out of range, which every bit operator
\* of the code reads as 0.
Get(arr, i) == IF i >= 0 /\ i < Len(arr) THEN arr[i + 1] ELSE 0

\* The value a store keeps: a Uint8Array wraps modulo 2^8, a Uint8ClampedArray
\* (ImageData.data in a browser) clamps to 0..255.
StoreValue(clamped, v) == IF clamped THEN Max(0, Min(255, v)) ELSE v % 256

\* arr[i] = v on a typed array: ignored out of range.
Set(arr, i, v, clamped) ==
    IF i >= 0 /\ i < Len(arr) THEN [arr EXCEPT ![i + 1] = StoreValue(clamped, v)] ELSE arr

\* arr.subarray(from, to) with 0 <= from: both ends clamped to the length.
Subarray(arr, from, to) ==
    SubSeq(arr, Min(from, Len(arr)) + 1, Min(Max(to, from), Len(arr)))

Zeros(n) == [i \in 1..n |-> 0]

Repeat(x, n) == [i \in 1..n |-> x]

Thrown(e) == [ok |-> FALSE, err |-> e]

\* A loop of the code: Step(st, i) applied for i = lo, lo + 1, ..., hi in turn.
\* The range is halved rather than walked, and the first half is evaluated
\* (by the test left = left) before the second starts, which keeps the
\* evaluation shallow.
RECURSIVE Iterate(_, _, _, _)
Iterate(Step(_, _), st, lo, hi) ==
    IF lo > hi THEN st
    ELSE IF lo = hi THEN Step(st, lo)
    ELSE LET mid == (lo + hi) \div 2
             left == Iterate(Step, st, lo, mid)
         IN  IF left = left THEN Iterate(Step, left, mid + 1, hi) ELSE st

(***************************************************************************)
(* src/index.ts 5-22: the bit helpers.                                     *)
(***************************************************************************)
\* A number argument is a fraction num/den (den > 0), so that a call with a
\* non-integer bitsTaken can be made.
IsSafeInteger(x) == x.num % x.den = 0

\* validateBits accepting 0, as a bound written 0 <= bitsTaken would.
validateBitsFromZero(bitsTaken) ==
    IsSafeInteger(bitsTaken) /\ bitsTaken.num >= 0 /\ bitsTaken.num <= 8 * bitsTaken.den

validateBits(bitsTaken) ==
    IsSafeInteger(bitsTaken) /\ bitsTaken.num >= bitsTaken.den
                             /\ bitsTaken.num <= 8 * bitsTaken.den

clearBits(n, bits) == (n \div Pow2(bits)) * Pow2(bits)

\* readBit counting positions from the least significant bit.
readBitLsb(byte, pos) == (byte \div Pow2(pos)) % 2

readBit(byte, pos) == (byte \div Pow2(7 - pos)) % 2

isAlpha(pixel) == pixel % 4 = 3

(***************************************************************************)
(* utils.utf8ToBytes / utils.bytesToUtf8: TextEncoder and TextDecoder.     *)
(***************************************************************************)
BOM == 65279
REPLACEMENT == 65533

EncodeCodePoint(cp) ==
    IF cp < 128 THEN <<cp>>
    ELSE IF cp < 2048 THEN <<192 + cp \div 64, 128 + (cp % 64)>>
    ELSE IF cp < 65536 THEN
        <<224 + cp \div 4096, 128 + ((cp \div 64) % 64), 128 + (cp % 64)>>
    ELSE <<240 + cp \div 262144, 128 + ((cp \div 4096) % 64),
           128 + ((cp \div 64) % 64), 128 + (cp % 64)>>

utf8ToBytes(str) ==
    Iterate(LAMBDA out, i : out \o EncodeCodePoint(str[i]), <<>>, 1, Len(str))

IsCont(bytes, i, lo, hi) == i <= Len(bytes) /\ bytes[i] >= lo /\ bytes[i] <= hi

\* The decoder's step at position i (1-based): the code point it emits and the
\* position it resumes at.  A malformed sequence emits U+FFFD and resumes at the
\* offending byte.
DecodeAt(bytes, i) ==
    LET b0 == bytes[i]
        lo == IF b0 = 224 THEN 160 ELSE IF b0 = 240 THEN 144 ELSE 128
        hi == IF b0 = 237 THEN 159 ELSE IF b0 = 244 THEN 143 ELSE 191
        bad(n) == [cp |-> REPLACEMENT, next |-> n]
    IN  IF b0 < 128 THEN [cp |-> b0, next |-> i + 1]
        ELSE IF b0 >= 194 /\ b0 <= 223 THEN
            IF IsCont(bytes, i + 1, 128, 191)
            THEN [cp |-> (b0 - 192) * 64 + (bytes[i + 1] - 128), next |-> i + 2]
            ELSE bad(i + 1)
        ELSE IF b0 >= 224 /\ b0 <= 239 THEN
            IF ~IsCont(bytes, i + 1, lo, hi) THEN bad(i + 1)
            ELSE IF ~IsCont(bytes, i + 2, 128, 191) THEN bad(i + 2)
            ELSE [cp |-> (b0 - 224) * 4096 + (bytes[i + 1] - 128) * 64
                         + (bytes[i + 2] - 128),
                  next |-> i + 3]
        ELSE IF b0 >= 240 /\ b0 <= 244 THEN
            IF ~IsCont(bytes, i + 1, lo, hi) THEN bad(i + 1)
            ELSE IF ~IsCont(bytes, i + 2, 128, 191) THEN bad(i + 2)
            ELSE IF ~IsCont(bytes, i + 3, 128, 191) THEN bad(i + 3)
            ELSE [cp |-> (b0 - 240) * 262144 + (bytes[i + 1] - 128) * 4096
                         + (bytes[i + 2] - 128) * 64 + (bytes[i + 3] - 128),
                  next |-> i + 4]
        ELSE bad(i + 1)

\* The decoder run over the bytes: at most one step per byte.
DecodeAll(bytes) ==
    Iterate(LAMBDA st, k :
                IF st.next > Len(bytes) THEN st
                ELSE LET d == DecodeAt(bytes, st.next)
                     IN  [out |-> Append(st.out, d.cp), next |-> d.next],
            [out |-> <<>>, next |-> 1], 1, Len(bytes)).out

\* new TextDecoder().decode(bytes): ignoreBOM is false, so a leading U+FEFF is
\* dropped from the output.
bytesToUtf8(bytes) ==
    LET s == DecodeAll(bytes)
    IN  IF s # <<>> /\ Head(s) = BOM THEN Tail(s) ELSE s

(***************************************************************************)
(* src/index.ts 47-153: RawFile.  A RawFile is [data, name, size].         *)
(***************************************************************************)
\* The decimal digits of n >= 0, as the characters of `${n}`.
RECURSIVE Decimal(_)
Decimal(n) == IF n < 10 THEN <<48 + n>> ELSE Decimal(n \div 10) \o <<48 + (n % 10)>>

\* `file-${size}.file`
DefaultName(size) == <<102, 105, 108, 101, 45>> \o Decimal(size) \o <<46, 102, 105, 108, 101>>

\* new RawFile(data, name): an empty name is falsy and is replaced.
NewRawFile(data, name) ==
    [data |-> data,
     name |-> IF name = <<>> THEN DefaultName(Len(data)) ELSE name,
     size |-> Len(data)]

\* setUint32 storing the least significant byte first.
Uint32BytesLittleEndian(v) ==
    <<v % 256, (v \div 256) % 256, (v \div 65536) % 256, (v \div 16777216) % 256>>

\* DataView.setUint32(offset, v): big-endian, v taken modulo 2^32.
Uint32Bytes(v) ==
    <<(v \div 16777216) % 256, (v \div 65536) % 256, (v \div 256) % 256, v % 256>>

\* DataView.getUint32(offset) on 4 bytes present.
Uint32At(arr, offset) ==
    arr[offset + 1] * 16777216 + arr[offset + 2] * 65536 + arr[offset + 3] * 256
    + arr[offset + 4]

\* createHeader letting a name of 256 bytes through.
createHeaderLong(file) ==
    LET nbytes == utf8ToBytes(file.name)
        nsize == Len(nbytes)
    IN  IF nsize < 1 \/ nsize > MaxNameBytes + 1 THEN Thrown("InvalidName")
        ELSE [ok |-> TRUE, bytes |-> <<nsize % 256>> \o nbytes \o Uint32Bytes(file.size)]

createHeader(file) ==
    LET nbytes == utf8ToBytes(file.name)
        nsize == Len(nbytes)
    IN  IF nsize < 1 \/ nsize > MaxNameBytes THEN Thrown("InvalidName")
        ELSE [ok |-> TRUE, bytes |-> <<nsize>> \o nbytes \o Uint32Bytes(file.size)]

pack(file) ==
    LET header == createHeader(file)
    IN  IF ~header.ok THEN header
        ELSE [ok |-> TRUE, bytes |-> header.bytes \o file.data]

\* packWithPadding refusing a file that fills requiredLength exactly.
packWithPaddingStrict(file, requiredLength) ==
    LET packed == pack(file)
    IN  IF ~packed.ok THEN packed
        ELSE LET difference == requiredLength - Len(packed.bytes)
             IN  IF difference <= 0 THEN Thrown("LengthTooSmall")
                 ELSE [ok |-> TRUE, bytes |-> packed.bytes \o Zeros(difference)]

\* packWithPadding returning the packed file without its padding.
packWithPaddingUnpadded(file, requiredLength) ==
    LET packed == pack(file)
    IN  IF ~packed.ok THEN packed
        ELSE IF requiredLength - Len(packed.bytes) < 0 THEN Thrown("LengthTooSmall")
        ELSE packed

packWithPadding(file, requiredLength) ==
    LET packed == pack(file)
    IN  IF ~packed.ok THEN packed
        ELSE LET difference == requiredLength - Len(packed.bytes)
             IN  IF difference < 0 THEN Thrown("LengthTooSmall")
                 ELSE [ok |-> TRUE, bytes |-> packed.bytes \o Zeros(difference)]

fromPacked(packed) ==
    IF Len(packed) < 1 THEN Thrown("RangeError")
    ELSE LET nsize == packed[1]
             name == bytesToUtf8(Subarray(packed, 1, 1 + nsize))
             offset == 1 + nsize
         IN  IF nsize < 1 THEN Thrown("CorruptHeader")
             ELSE IF offset + 4 > Len(packed) THEN Thrown("RangeError")
             ELSE LET fsize == Uint32At(packed, offset)
                      unpadded == Subarray(packed, offset + 4, offset + 4 + fsize)
                  IN  [ok |-> TRUE, file |-> NewRawFile(unpadded, name)]

(***************************************************************************)
(* The authenticated encryption the code calls (micro-aes-gcm): an ideal   *)
(* pair.  encrypt returns iv || ciphertext || tag with the ciphertext as   *)
(* long as the plaintext; decrypt rejects a blob whose tag does not match  *)
(* its key, iv and ciphertext.  A key is a small integer.                  *)
(***************************************************************************)
SumBytes(arr) == Iterate(LAMBDA sum, i : (sum + arr[i]) % 256, 0, 1, Len(arr))

KeyStream(key, ivSum, i) == (key * 101 + ivSum * 3 + i * 7 + 19) % 256

TagBytes(key, iv, ct) ==
    LET t == (key * 59 + SumBytes(iv) + SumBytes(ct) + 77) % 256
    IN  [j \in 1..TAG_SIZE |-> (t + j * 17) % 256]

aesEncrypt(key, iv, plaintext) ==
    LET ivSum == SumBytes(iv)
        ct == [i \in 1..Len(plaintext) |->
                 (plaintext[i] + KeyStream(key, ivSum, i)) % 256]
    IN  iv \o ct \o TagBytes(key, iv, ct)

aesDecrypt(key, blob) ==
    IF Len(blob) < IV_SIZE + TAG_SIZE THEN Thrown("AuthenticationFailed")
    ELSE LET iv == SubSeq(blob, 1, IV_SIZE)
             ct == SubSeq(blob, IV_SIZE + 1, Len(blob) - TAG_SIZE)
             tag == SubSeq(blob, Len(blob) - TAG_SIZE + 1, Len(blob))
             ivSum == SumBytes(iv)
         IN  IF tag # TagBytes(key, iv, ct) THEN Thrown("AuthenticationFailed")
             ELSE [ok |-> TRUE,
                   bytes |-> [i \in 1..Len(ct) |->
                                (ct[i] - KeyStream(key, ivSum, i)) % 256]]

(***************************************************************************)
(* src/index.ts 202-218: StegImage.calcCapacity, on a validated bitsTaken. *)
(***************************************************************************)
\* The integer a validated number argument denotes.
IntOf(x) == x.num \div x.den

\* calcCapacity counting the first pixel, which holds the header, as payload.
calcCapacityAllPixels(channelsLen, bitsTaken) ==
    LET bits == (channelsLen \div 4) * 3 * bitsTaken
    IN  [bits |-> bits, bytes |-> bits \div 8]

calcCapacity(channelsLen, bitsTaken) ==
    LET rgba == 4
        channelsNoFirst == channelsLen - rgba
        \* channelsLen is a multiple of 4: the division is exact
        pixels == channelsNoFirst \div rgba
        rgb == 3
        bits == pixels * rgb * bitsTaken
    IN  [bits |-> bits, bytes |-> bits \div 8]

(***************************************************************************)
(* src/index.ts 254-341: the write side of StegImage.hideBlob.  The cursor *)
(* state is [ch, id, buf, bufBits, draws, log]: the channels, channelId,   *)
(* the bit buffer, the number of random bytes drawn so far from the CSPRNG *)
(* and, as a history of the run, the channelId, data and bits of each call *)
(* of writeChannel.                                                        *)
(***************************************************************************)
\* getRandomByte(): draw number k of the random stream `seed`.
RandomByte(seed, k) ==
    IF seed = 0 THEN 0 ELSE IF seed = 1 THEN 255 ELSE (seed * 83 + k * 37) % 256

\* writeChannel without the step over the alpha channel.
writeChannelNoSkip(st, data, bits, clamped) ==
    [st EXCEPT !.ch = Set(st.ch, st.id, BitOr(clearBits(Get(st.ch, st.id), bits), data),
                          clamped),
               !.id = st.id + 1,
               !.log = Append(st.log, [id |-> st.id, data |-> data, bits |-> bits])]

\* writeChannel storing data over the whole channel.
writeChannelOverwrite(st, data, bits, clamped) ==
    LET ch1 == Set(st.ch, st.id, data, clamped)
        id1 == st.id + 1
        log1 == Append(st.log, [id |-> st.id, data |-> data, bits |-> bits])
    IN  IF isAlpha(id1)
        THEN [st EXCEPT !.ch = Set(ch1, id1, 256, clamped), !.id = id1 + 1, !.log = log1]
        ELSE [st EXCEPT !.ch = ch1, !.id = id1, !.log = log1]

\* writeChannel storing 255 in the alpha channel.
writeChannelOpaque(st, data, bits, clamped) ==
    LET ch1 == Set(st.ch, st.id, BitOr(clearBits(Get(st.ch, st.id), bits), data), clamped)
        id1 == st.id + 1
        log1 == Append(st.log, [id |-> st.id, data |-> data, bits |-> bits])
    IN  IF isAlpha(id1)
        THEN [st EXCEPT !.ch = Set(ch1, id1, 255, clamped), !.id = id1 + 1, !.log = log1]
        ELSE [st EXCEPT !.ch = ch1, !.id = id1, !.log = log1]

writeChannel(st, data, bits, clamped) ==
    LET curr == Get(st.ch, st.id)
        ch1 == Set(st.ch, st.id, BitOr(clearBits(curr, bits), data), clamped)
        id1 == st.id + 1
        log1 == Append(st.log, [id |-> st.id, data |-> data, bits |-> bits])
    IN  IF isAlpha(id1)
        THEN [st EXCEPT !.ch = Set(ch1, id1, 256, clamped), !.id = id1 + 1, !.log = log1]
        ELSE [st EXCEPT !.ch = ch1, !.id = id1, !.log = log1]

\* The header loop storing bitsTaken itself, not bitsTaken - 1.
RECURSIVE WriteHeaderUnbiased(_, _, _)
WriteHeaderUnbiased(st, bitsTaken, clamped) ==
    IF st.id < 3
    THEN WriteHeaderUnbiased(writeChannel(st, readBit(bitsTaken, 8 - 3 + st.id), 1, clamped),
                             bitsTaken, clamped)
    ELSE st

\* while (channelId < 3) writeChannel(readBit(bitsTaken - 1, 8 - 3 + channelId), 1)
RECURSIVE WriteHeader(_, _, _)
WriteHeader(st, bitsTaken, clamped) ==
    IF st.id < 3
    THEN WriteHeader(writeChannel(st, readBit(bitsTaken - 1, 8 - 3 + st.id), 1, clamped),
                     bitsTaken, clamped)
    ELSE st

\* The inner loop over the bits `bit`..7 of one payload byte.
RECURSIVE PushBits(_, _, _, _, _)
PushBits(st, hiddenDataByte, bit, bitsTaken, clamped) ==
    IF bit >= 8 THEN st
    ELSE LET buf == st.buf * 2 + readBit(hiddenDataByte, bit)
             bufBits == st.bufBits + 1
             st1 == IF bufBits = bitsTaken
                    THEN [writeChannel(st, buf, bitsTaken, clamped)
                            EXCEPT !.buf = 0, !.bufBits = 0]
                    ELSE [st EXCEPT !.buf = buf, !.bufBits = bufBits]
         IN  PushBits(st1, hiddenDataByte, bit + 1, bitsTaken, clamped)

\* for (byte = 0; byte < hData.length; byte++)
PushBytes(st, hData, bitsTaken, clamped) ==
    Iterate(LAMBDA s, byte : PushBits(s, hData[byte + 1], 0, bitsTaken, clamped),
            st, 0, Len(hData) - 1)

\* for (i = 0; i < leftoverBits; i++): random bits shifted in below the
\* payload bits; FALSE when the loop throws (i > 7).
RECURSIVE FillLeftover(_, _, _, _)
FillLeftover(st, randomByte, i, leftoverBits) ==
    IF i >= leftoverBits THEN [ok |-> TRUE, st |-> st]
    ELSE IF i > 7 THEN Thrown("NeedMoreRandomBits")
    ELSE FillLeftover([st EXCEPT !.buf = st.buf * 2 + readBit(randomByte, i),
                                 !.bufBits = st.bufBits + 1],
                      randomByte, i + 1, leftoverBits)

\* The flush with the random bits above the payload bits.
LeftoversRandomFirst(st, bitsTaken, seed, clamped) ==
    IF st.bufBits = 0 THEN [ok |-> TRUE, st |-> st]
    ELSE LET randomByte == RandomByte(seed, st.draws)
             leftoverBits == bitsTaken - st.bufBits
             buf == (randomByte \div Pow2(8 - leftoverBits)) * Pow2(st.bufBits) + st.buf
         IN  [ok |-> TRUE,
              st |-> writeChannel([st EXCEPT !.draws = st.draws + 1, !.buf = buf,
                                             !.bufBits = bitsTaken],
                                  buf, bitsTaken, clamped)]

\* if (bufBits) { ... writeChannel(buf) }
Leftovers(st, bitsTaken, seed, clamped) ==
    IF st.bufBits = 0 THEN [ok |-> TRUE, st |-> st]
    ELSE LET randomByte == RandomByte(seed, st.draws)
             filled == FillLeftover([st EXCEPT !.draws = st.draws + 1], randomByte, 0,
                                    bitsTaken - st.bufBits)
         IN  IF ~filled.ok THEN filled
             ELSE IF filled.st.bufBits # bitsTaken THEN Thrown("BufBitsMismatch")
             ELSE [ok |-> TRUE,
                   st |-> writeChannel(filled.st, filled.st.buf, bitsTaken, clamped)]

\* while (channelId < channelsLen) writeChannel(randomByte & bitsTakenMask):
\* every turn advances channelId, so the loop takes at most channelsLen turns.
Trailing(st, bitsTaken, seed, clamped) ==
    Iterate(LAMBDA s, k :
                IF s.id < Len(s.ch)
                THEN writeChannel([s EXCEPT !.draws = s.draws + 1],
                                  RandomByte(seed, s.draws) % Pow2(bitsTaken),
                                  bitsTaken, clamped)
                ELSE s,
            st, 1, Len(st.ch))

\* Lines 254-341: the checks and the four write phases.  The result is the
\* thrown error or the written channels, with the final channelId and the
\* calls of writeChannel of the run.
hideBlobWrite(channels, hData, bitsTaken, seed, drawn, clamped) ==
    IF ~validateBits(bitsTaken) THEN Thrown("BitsOutOfRange")
    ELSE LET b == IntOf(bitsTaken)
             cap == calcCapacity(Len(channels), b).bytes
         IN  IF Len(hData) > cap THEN Thrown("FileTooLarge")
             ELSE LET st0 == [ch |-> channels, id |-> 0, buf |-> 0, bufBits |-> 0,
                              draws |-> drawn, log |-> <<>>]
                      st1 == WriteHeader(st0, b, clamped)
                      st2 == PushBytes(st1, hData, b, clamped)
                      st3 == Leftovers(st2, b, seed, clamped)
                  IN  IF ~st3.ok THEN st3
                      ELSE LET st4 == Trailing(st3.st, b, seed, clamped)
                           IN  IF st4.id # Len(channels) THEN Thrown("CursorMismatch")
                               ELSE [ok |-> TRUE, channels |-> st4.ch, id |-> st4.id,
                                     writes |-> st4.log]

(***************************************************************************)
(* src/index.ts 371-409: the read side.                                    *)
(***************************************************************************)
\* revealBitsTaken reading the header one channel further on.
revealBitsTakenShifted(channels) ==
    LET bit0 == readBit(Get(channels, 1), 7) * 4
        bit1 == readBit(Get(channels, 2), 7) * 2
        bit2 == readBit(Get(channels, 3), 7)
        bitsTaken == 1 + BitOr(BitOr(bit0, bit1), bit2)
    IN  IF validateBits([num |-> bitsTaken, den |-> 1])
        THEN [ok |-> TRUE, bitsTaken |-> bitsTaken]
        ELSE Thrown("BitsOutOfRange")

\* revealBitsTaken taking the header as bitsTaken itself, not bitsTaken - 1.
revealBitsTakenUnbiased(channels) ==
    LET bit0 == readBit(Get(channels, 0), 7) * 4
        bit1 == readBit(Get(channels, 1), 7) * 2
        bit2 == readBit(Get(channels, 2), 7)
        bitsTaken == BitOr(BitOr(bit0, bit1), bit2)
    IN  IF validateBits([num |-> bitsTaken, den |-> 1])
        THEN [ok |-> TRUE, bitsTaken |-> bitsTaken]
        ELSE Thrown("BitsOutOfRange")

revealBitsTaken(channels) ==
    LET bit0 == readBit(Get(channels, 0), 7) * 4
        bit1 == readBit(Get(channels, 1), 7) * 2
        bit2 == readBit(Get(channels, 2), 7)
        bitsTaken == 1 + BitOr(BitOr(bit0, bit1), bit2)
    IN  IF validateBits([num |-> bitsTaken, den |-> 1])
        THEN [ok |-> TRUE, bitsTaken |-> bitsTaken]
        ELSE Thrown("BitsOutOfRange")

\* One turn of the loop of revealBlob, on [channelId, buf, bufBits, out, outPos]
\* with channelId < channels.length.  (buf << bitsTaken) | x is a sum, the
\* shifted buffer having its low bitsTaken bits clear; out is a Uint8Array, a
\* store past its end is dropped.  reads is a history of the run: the index
\* of each channels[channelId] read.
RevealStep(r, channels, bitsTaken) ==
    LET id == IF isAlpha(r.channelId) THEN r.channelId + 1 ELSE r.channelId
        buf == r.buf * Pow2(bitsTaken) + (Get(channels, id) % Pow2(bitsTaken))
        bufBits == r.bufBits + bitsTaken
        leftBits == bufBits - 8
    IN  IF bufBits >= 8
        THEN [channelId |-> id + 1, buf |-> buf % Pow2(leftBits), bufBits |-> leftBits,
              out |-> Set(r.out, r.outPos, buf \div Pow2(leftBits), FALSE),
              outPos |-> r.outPos + 1, reads |-> Append(r.reads, id)]
        ELSE [r EXCEPT !.channelId = id + 1, !.buf = buf, !.bufBits = bufBits,
                       !.reads = Append(r.reads, id)]

\* for (channelId = 4; channelId < channels.length; channelId++): every turn
\* advances channelId, so the loop takes at most channels.length turns.
RevealLoop(channels, bitsTaken, bytes) ==
    Iterate(LAMBDA r, k :
                IF r.channelId < Len(channels) THEN RevealStep(r, channels, bitsTaken)
                ELSE r,
            [channelId |-> 4, buf |-> 0, bufBits |-> 0, out |-> Zeros(bytes),
             outPos |-> 0, reads |-> <<>>],
            1, Len(channels))

revealBlob(channels) ==
    LET h == revealBitsTaken(channels)
    IN  IF ~h.ok THEN h
        ELSE LET bytes == calcCapacity(Len(channels), h.bitsTaken).bytes
             IN  IF bytes < 0 THEN Thrown("RangeError")
                 ELSE LET r == RevealLoop(channels, h.bitsTaken, bytes)
                      IN  [ok |-> TRUE, bytes |-> r.out, reads |-> r.reads]

\* reveal taking the plaintext out of the blob without checking its tag.
revealUnauthenticated(channels, key) ==
    LET ciphertext == revealBlob(channels)
    IN  IF ~ciphertext.ok THEN ciphertext
        ELSE IF Len(ciphertext.bytes) < IV_SIZE + TAG_SIZE
        THEN Thrown("AuthenticationFailed")
        ELSE LET blob == ciphertext.bytes
                 ivSum == SumBytes(SubSeq(blob, 1, IV_SIZE))
                 ct == SubSeq(blob, IV_SIZE + 1, Len(blob) - TAG_SIZE)
             IN  fromPacked([i \in 1..Len(ct) |->
                                (ct[i] - KeyStream(key, ivSum, i)) % 256])

\* src/index.ts 233-237
reveal(channels, key) ==
    LET ciphertext == revealBlob(channels)
    IN  IF ~ciphertext.ok THEN ciphertext
        ELSE LET packed == aesDecrypt(key, ciphertext.bytes)
             IN  IF ~packed.ok THEN packed ELSE fromPacked(packed.bytes)

(***************************************************************************)
(* src/index.ts 343-367: what hideBlob does after the writes.  The canvas  *)
(* is the rendering collaborator: "exact" keeps every channel it is given, *)
(* "premultiplied" keeps no colour under a transparent alpha.              *)
(***************************************************************************)
Render(px, canvasMode) ==
    IF canvasMode = "exact" THEN px
    ELSE [i \in 1..Len(px) |->
            IF ~isAlpha(i - 1) /\ Get(px, 4 * ((i - 1) \div 4) + 3) = 0 THEN 0 ELSE px[i]]

\* The verification comparing channel 0 only.
hideBlobVerifyFirst(channels, w, hasContext, canvasMode) ==
    IF ~w.ok THEN [ok |-> FALSE, err |-> w.err, channels |-> channels]
    ELSE IF ~hasContext THEN [ok |-> FALSE, err |-> "NoContext", channels |-> w.channels]
    ELSE LET vchannels == Render(w.channels, canvasMode)
         IN  IF Get(w.channels, 0) # Get(vchannels, 0)
             THEN [ok |-> FALSE, err |-> "RoundtripVerificationFailed",
                   channels |-> w.channels, vchannels |-> vchannels]
             ELSE [ok |-> TRUE, channels |-> w.channels, canvas |-> vchannels]

\* Lines 343-362, after the writes w: the error thrown, or the canvas handed to
\* canvas.toBlob; in both cases the channels as the call leaves them.  A failed
\* verification is reported with the buffer getImageData returned.
hideBlobVerify(channels, w, hasContext, canvasMode) ==
    IF ~w.ok THEN [ok |-> FALSE, err |-> w.err, channels |-> channels]
    ELSE IF ~hasContext THEN [ok |-> FALSE, err |-> "NoContext", channels |-> w.channels]
    ELSE LET vchannels == Render(w.channels, canvasMode)
         IN  IF \E i \in 1..Len(w.channels) : w.channels[i] # vchannels[i]
             THEN [ok |-> FALSE, err |-> "RoundtripVerificationFailed",
                   channels |-> w.channels, vchannels |-> vchannels]
             ELSE [ok |-> TRUE, channels |-> w.channels, canvas |-> vchannels]

(***************************************************************************)
(* The state.                                                              *)
(***************************************************************************)
VARIABLES
    image,      \* the pixels of the image the StegImage was made from
    channels,   \* this.imageData.data, the working buffer
    clamped,    \* the working buffer is a Uint8ClampedArray
    call,       \* the hide / hideBlob promise in flight, with the writes it made
    ret,        \* the last call settled and not yet read: [op, arg, res]; a
                \* failed verification is kept with the buffer re-decoded
    made,       \* the call whose exported image the StegImage was opened from,
                \* with the number of hides that wrote these pixels earlier
    flipped,    \* the payload bit flipped in that image since, or -1
    file,       \* the RawFile at hand
    given       \* the (data, name) it was constructed from

vars == <<image, channels, clamped, call, ret, made, flipped, file, given>>

NoFile == [data |-> <<>>, name |-> <<>>, size |-> 0]

NoArgs == [data |-> <<>>, name |-> <<>>]

Int1(n) == [num |-> n, den |-> 1]

Idle ==
    [pc |-> "idle", op |-> "none", file |-> NoFile, key |-> 0, bitsTaken |-> Int1(1),
     capacity |-> 0, data |-> <<>>, canvas |-> <<>>, writes |-> <<>>]

NoRet == [op |-> "none", arg |-> 0, res |-> [ok |-> TRUE]]

Unmade ==
    [op |-> "none", file |-> NoFile, key |-> 0, bitsTaken |-> 1, data |-> <<>>,
     earlier |-> 0]

\* The arguments of a hide or hideBlob call, as ret and made keep them.
HideArg(rawFile, key, bitsTaken, data) ==
    [file |-> rawFile, key |-> key, bitsTaken |-> bitsTaken, data |-> data]

(***************************************************************************)
(* The inputs the model draws.                                             *)
(***************************************************************************)
\* bitsTaken arguments: -1..9 and 3/2
BitsInputs == {Int1(n) : n \in -1..9} \cup {[num |-> 3, den |-> 2]}

Keys == 0..MaxKey

\* The random streams: all bits clear, all bits set, mixed.
Seeds == 0..MaxSeed

CanvasModes == {"exact", "premultiplied"}

\* The pixel buffers an image is made of: zero-filled, 255-filled or filled
\* with a ramp; a Uint8Array, as in the tests, or the Uint8ClampedArray of a
\* browser's ImageData.
Pixels(kind, n) ==
    IF kind = "zero" THEN Repeat(0, n)
    ELSE IF kind = "max" THEN Repeat(255, n)
    ELSE [i \in 1..n |-> (37 * i) % 256]

Buffers ==
    {[kind |-> "zero", clamped |-> FALSE], [kind |-> "max", clamped |-> FALSE],
     [kind |-> "max", clamped |-> TRUE]}

BlobBuffers ==
    Buffers \cup {[kind |-> "ramp", clamped |-> FALSE], [kind |-> "ramp", clamped |-> TRUE]}

\* The least number of pixels on which hide fits a 1-byte name and no content.
MinFitPixels(b) ==
    CHOOSE p \in 1..MaxImagePixels :
        /\ calcCapacity(4 * p, b).bytes - ENCRYPTED_METADATA_SIZE >= 6
        /\ \A q \in 1..(p - 1) :
              calcCapacity(4 * q, b).bytes - ENCRYPTED_METADATA_SIZE < 6

\* The images of Spec: the small ones, on which no file fits, and for each
\* bitsTaken the smallest one on which a file fits.
PixelCounts == (0..MaxSmallPixels) \cup {MinFitPixels(b) : b \in 1..8}

HideNames == {<<97>>, <<BOM, 97>>}

FillBytes == {0, 255}

\* The content lengths tried on a capacity: the short ones, the longest that
\* fits beside a name of nameLen bytes, and one more.
ContentLengths(capacity, nameLen) ==
    LET fit == capacity - ENCRYPTED_METADATA_SIZE - 5 - nameLen
    IN  (0..MaxHideContent) \cup {n \in {fit, fit + 1} : n >= 0}

HideFiles(capacity) ==
    {NewRawFile(Repeat(fill, n), name) :
        fill \in FillBytes,
        <<name, n>> \in UNION {{<<nm, k>> : k \in ContentLengths(capacity, Len(utf8ToBytes(nm)))}
                                 : nm \in HideNames}}

\* The payloads of a direct hideBlob: every length up to one more than fits.
PayloadFills == {0, 255, 170}

Payloads(capacity) ==
    {Repeat(fill, n) : fill \in PayloadFills, n \in 0..(Max(capacity, 0) + 1)}

\* The capacity a hide or hideBlob of the model works with: none on a bitsTaken
\* that fails validation, and at most MaxCapacity bytes.
CapacityOf(bitsTaken) ==
    IF validateBits(bitsTaken) THEN calcCapacity(Len(channels), IntOf(bitsTaken)).bytes
    ELSE 0

(***************************************************************************)
(* StegImage: the actions.                                                 *)
(***************************************************************************)
\* The state after `new StegImage(image)` on an image of one of the given
\* sizes and buffers.
InitWith(pixelCounts, buffers) ==
    /\ \E p \in pixelCounts, b \in buffers :
          /\ image = Pixels(b.kind, 4 * p)
          /\ clamped = b.clamped
    /\ channels = image
    /\ call = Idle
    /\ ret = NoRet
    /\ made = Unmade
    /\ flipped = -1
    /\ file = NoFile
    /\ given = NoArgs

Init == InitWith(PixelCounts, Buffers)

\* calcCapacity(bitsTaken), lines 202-218
CalcCapacity ==
    /\ call.pc = "idle"
    /\ ret = NoRet
    /\ made.op = "none"
    /\ \E bitsTaken \in BitsInputs :
          ret' = [op |-> "calcCapacity", arg |-> bitsTaken,
                  res |-> IF ~validateBits(bitsTaken) THEN Thrown("BitsOutOfRange")
                          ELSE [ok |-> TRUE,
                                capacity |-> calcCapacity(Len(channels),
                                                          IntOf(bitsTaken))]]
    /\ UNCHANGED <<image, channels, clamped, call, made, flipped, file, given>>

\* hide(rawFile, key, bitsTaken) to its first await, lines 224-227
HideCall(rawFile, key, bitsTaken) ==
    LET arg == HideArg(rawFile, key, bitsTaken, <<>>) IN
    IF ~validateBits(bitsTaken)
    THEN /\ ret' = [op |-> "hide", arg |-> arg, res |-> Thrown("BitsOutOfRange")]
         /\ call' = call
    ELSE LET capacity == calcCapacity(Len(channels), IntOf(bitsTaken)).bytes
             packed == packWithPadding(rawFile, capacity - ENCRYPTED_METADATA_SIZE)
         IN  IF ~packed.ok
             THEN /\ ret' = [op |-> "hide", arg |-> arg, res |-> packed]
                  /\ call' = call
             ELSE /\ call' = [Idle EXCEPT !.pc = "encrypt", !.op = "hide",
                                          !.file = rawFile, !.key = key,
                                          !.bitsTaken = bitsTaken,
                                          !.capacity = capacity,
                                          !.data = packed.bytes]
                  /\ ret' = NoRet

\* hide on a file made for the image: the model starts a hide on the working
\* buffer of a source image, as constructed or as reset.
Hide ==
    /\ call.pc = "idle"
    /\ ret = NoRet
    /\ made.op = "none"
    /\ channels = image
    /\ \E bitsTaken \in BitsInputs, key \in Keys :
          /\ CapacityOf(bitsTaken) <= MaxCapacity
          /\ \E rawFile \in HideFiles(CapacityOf(bitsTaken)) :
                HideCall(rawFile, key, bitsTaken)
    /\ UNCHANGED <<image, channels, clamped, made, flipped, file, given>>

\* Lines 343-367 on the writes w of a hideBlob called with arg: the call fails,
\* or it waits for the callback of canvas.toBlob.
HideBlobSettle(arg, w, op) ==
    \E hasContext \in BOOLEAN, canvasMode \in CanvasModes :
        LET h == hideBlobVerify(channels, w, hasContext, canvasMode)
        IN  /\ channels' = h.channels
            /\ IF h.ok
               THEN /\ call' = [Idle EXCEPT !.pc = "toBlob", !.op = op,
                                            !.file = arg.file, !.key = arg.key,
                                            !.bitsTaken = arg.bitsTaken,
                                            !.capacity = call.capacity,
                                            !.data = arg.data, !.canvas = h.canvas,
                                            !.writes = w.writes]
                    /\ ret' = ret
               ELSE /\ call' = Idle
                    /\ ret' = [op |-> op, arg |-> arg,
                               res |-> IF h.err = "RoundtripVerificationFailed"
                                       THEN [ok |-> FALSE, err |-> h.err,
                                             vchannels |-> h.vchannels]
                                       ELSE Thrown(h.err)]

\* hide resumed when aes.encrypt settles, lines 227-230, and hideBlob to its
\* call of canvas.toBlob, lines 254-362.  The iv is the first draw of the
\* CSPRNG, the filler bytes the following ones.
EncryptDone ==
    /\ call.pc = "encrypt"
    /\ \E seed \in Seeds :
          \E ciphertext \in {aesEncrypt(call.key,
                                        [i \in 1..IV_SIZE |-> RandomByte(seed, i - 1)],
                                        call.data)} :
             LET arg == HideArg(call.file, call.key, call.bitsTaken, ciphertext)
             IN  IF Len(ciphertext) # call.capacity
                 THEN /\ ret' = [op |-> "hide", arg |-> arg,
                                 res |-> Thrown("EncryptionSizeMismatch")]
                      /\ call' = Idle
                      /\ channels' = channels
                 ELSE \E w \in {hideBlobWrite(channels, ciphertext, call.bitsTaken, seed,
                                              IV_SIZE, clamped)} :
                         HideBlobSettle(arg, w, "hide")
    /\ UNCHANGED <<image, clamped, made, flipped, file, given>>

\* hideBlob(hData, bitsTaken) called directly, to its call of canvas.toBlob,
\* lines 254-362
HideBlob ==
    /\ call.pc = "idle"
    /\ ret = NoRet
    /\ made.op = "none"
    /\ channels = image
    /\ \E bitsTaken \in BitsInputs, seed \in Seeds :
          /\ CapacityOf(bitsTaken) <= MaxCapacity
          /\ \E hData \in Payloads(CapacityOf(bitsTaken)) :
                \E w \in {hideBlobWrite(channels, hData, bitsTaken, seed, 0, clamped)} :
                   HideBlobSettle(HideArg(NoFile, 0, bitsTaken, hData), w, "hideBlob")
    /\ UNCHANGED <<image, clamped, made, flipped, file, given>>

\* The callback of canvas.toBlob and reset(), lines 182-200 and 362-366
ToBlobDone ==
    /\ call.pc = "toBlob"
    /\ \E hasBlob \in BOOLEAN :
          ret' = [op |-> call.op,
                  arg |-> HideArg(call.file, call.key, call.bitsTaken, call.data),
                  res |-> IF hasBlob THEN [ok |-> TRUE, url |-> call.canvas]
                          ELSE Thrown("NoBlob")]
    /\ channels' = image
    /\ call' = Idle
    /\ UNCHANGED <<image, clamped, made, flipped, file, given>>

\* StegImage.fromBytesOrURL(url) on the URL a hide resolved with, lines 170-180:
\* from here on the model follows the StegImage of the exported image.
Open ==
    /\ call.pc = "idle"
    /\ ret.op \in {"hide", "hideBlob"}
    /\ ret.res.ok
    /\ made.op = "none"
    /\ image' = ret.res.url
    /\ channels' = ret.res.url
    /\ made' = [op |-> ret.op, file |-> ret.arg.file, key |-> ret.arg.key,
                bitsTaken |-> IntOf(ret.arg.bitsTaken), data |-> ret.arg.data,
                earlier |-> 0]
    /\ ret' = NoRet
    /\ UNCHANGED <<clamped, call, flipped, file, given>>

\* reveal(key), lines 233-237
Reveal ==
    /\ call.pc = "idle"
    /\ ret = NoRet
    /\ \E key \in Keys : ret' = [op |-> "reveal", arg |-> key, res |-> reveal(channels, key)]
    /\ UNCHANGED <<image, channels, clamped, call, made, flipped, file, given>>

\* revealBlob(), lines 382-409.  Its body awaits nothing and runs to its end
\* when called: the model also calls it on the working buffer a hideBlob has
\* written and not yet reset, while the export is pending.
RevealBlob ==
    /\ call.pc \in {"idle", "toBlob"}
    /\ ret = NoRet
    /\ ret' = [op |-> "revealBlob", arg |-> 0, res |-> revealBlob(channels)]
    /\ UNCHANGED <<image, channels, clamped, call, made, flipped, file, given>>

\* revealBitsTaken(), lines 371-380
RevealBitsTaken ==
    /\ call.pc = "idle"
    /\ ret = NoRet
    /\ ret' = [op |-> "revealBitsTaken", arg |-> 0, res |-> revealBitsTaken(channels)]
    /\ UNCHANGED <<image, channels, clamped, call, made, flipped, file, given>>

\* The client has read the outcome of its last call; it makes its next call
\* after that.
Forget ==
    /\ call.pc = "idle"
    /\ ret # NoRet
    /\ ret' = NoRet
    /\ UNCHANGED <<image, channels, clamped, call, made, flipped, file, given>>

Next ==
    \/ CalcCapacity
    \/ Hide
    \/ EncryptDone
    \/ ToBlobDone
    \/ Open
    \/ Reveal
    \/ Forget

Spec == Init /\ [][Next]_vars

(***************************************************************************)
(* SpecTamper: an exported image is altered between hide and reveal.       *)
(***************************************************************************)
\* Payload bit j (0-based, in the order hideBlob writes and revealBlob reads):
\* the channel that stores it and its weight there.  Slot k is the k-th
\* non-alpha channel from index 4 on, a slot holds bitsTaken bits, most
\* significant first (lines 293-310, 392-407).
PayloadChannel(j, bitsTaken) ==
    4 + 4 * ((j \div bitsTaken) \div 3) + ((j \div bitsTaken) % 3)

PayloadWeight(j, bitsTaken) == Pow2(bitsTaken - 1 - (j % bitsTaken))

FlipBit(px, j, bitsTaken) ==
    LET i == PayloadChannel(j, bitsTaken)
        w == PayloadWeight(j, bitsTaken)
        v == Get(px, i)
    IN  [px EXCEPT ![i + 1] = IF (v \div w) % 2 = 1 THEN v - w ELSE v + w]

\* The value of the n payload bits from bit `from` on, in the order hideBlob
\* shifts them into its buffer (lines 293-301): byte by byte, most significant
\* bit first.
RECURSIVE PayloadBits(_, _, _)
PayloadBits(hData, from, n) ==
    IF n = 0 THEN 0
    ELSE 2 * PayloadBits(hData, from, n - 1)
         + readBit(hData[((from + n - 1) \div 8) + 1], (from + n - 1) % 8)

\* The payload bits the model flips, of the 8 * capacity bits of a blob: the
\* first, the last and TamperSamples evenly spaced ones.
TamperBits(capacity) ==
    {(k * 8 * capacity) \div TamperSamples : k \in 0..(TamperSamples - 1)}
        \cup {8 * capacity - 1}

\* One bit of the blob stored in the exported image is flipped before the image
\* is read back.
Tamper ==
    /\ call.pc = "idle"
    /\ ret = NoRet
    /\ made.op = "hide"
    /\ flipped = -1
    /\ \E j \in TamperBits(calcCapacity(Len(channels), made.bitsTaken).bytes) :
          /\ flipped' = j
          /\ image' = FlipBit(image, j, made.bitsTaken)
          /\ channels' = FlipBit(channels, j, made.bitsTaken)
    /\ UNCHANGED <<clamped, call, ret, made, file, given>>

\* The images of SpecTamper: the smallest on which a file fits with bitsTaken
\* 8 and with bitsTaken 7.
TamperPixelCounts == {MinFitPixels(b) : b \in 7..8}

InitTamper == InitWith(TamperPixelCounts, Buffers)

NextTamper ==
    \/ Hide
    \/ EncryptDone
    \/ ToBlobDone
    \/ Open
    \/ Tamper
    \/ Reveal
    \/ Forget

SpecTamper == InitTamper /\ [][NextTamper]_vars

(***************************************************************************)
(* SpecBlob: hideBlob, revealBlob and revealBitsTaken called directly on   *)
(* small images, written by the codec or not.                              *)
(***************************************************************************)
ScribbleValues == {0, 1, 254, 255}

\* A channel of the working buffer is overwritten from outside the codec.
Scribble ==
    /\ call.pc = "idle"
    /\ ret = NoRet
    /\ made.op = "none"
    /\ channels = image
    /\ \E i \in 0..(Len(channels) - 1), v \in ScribbleValues :
          /\ Get(channels, i) # v
          /\ channels' = [channels EXCEPT ![i + 1] = v]
    /\ UNCHANGED <<image, clamped, call, ret, made, flipped, file, given>>

InitBlob == InitWith(0..MaxBlobPixels, BlobBuffers)

NextBlob ==
    \/ CalcCapacity
    \/ Hide
    \/ HideBlob
    \/ ToBlobDone
    \/ Open
    \/ Scribble
    \/ RevealBitsTaken
    \/ RevealBlob
    \/ Reveal
    \/ Forget

SpecBlob == InitBlob /\ [][NextBlob]_vars

(***************************************************************************)
(* SpecPack: RawFile and the packed-file format, and hide of the file at   *)
(* hand into an image too small for any file.                              *)
(***************************************************************************)
\* The characters of a name: of 1, 2 and 3 UTF-8 bytes, and U+FEFF.
NameChars == {97, 233, 8364, BOM}

RECURSIVE SeqsUpTo(_, _)
SeqsUpTo(S, n) ==
    IF n = 0 THEN {<<>>}
    ELSE LET shorter == SeqsUpTo(S, n - 1)
         IN  shorter \cup {Append(s, x) : s \in {t \in shorter : Len(t) = n - 1}, x \in S}

\* The names at the limit of 255 bytes: of 255 and 256 characters of 1 byte,
\* of 128 characters of 2 bytes (256 bytes), of 85 characters of 3 bytes and
\* of 63 characters of 4 bytes followed by 3 of 1 byte (255 bytes).
LongNames ==
    {Repeat(97, MaxNameBytes), Repeat(97, MaxNameBytes + 1),
     Repeat(233, (MaxNameBytes + 1) \div 2), Repeat(8364, MaxNameBytes \div 3),
     Repeat(128512, MaxNameBytes \div 4) \o Repeat(97, MaxNameBytes % 4)}

Names == SeqsUpTo(NameChars, MaxNameChars) \cup LongNames

Contents == SeqsUpTo(FillBytes, MaxContent)

\* new RawFile(data, name), lines 92-95
NewFile ==
    /\ call.pc = "idle"
    /\ ret = NoRet
    /\ file = NoFile
    /\ given = NoArgs
    /\ \E data \in Contents, name \in Names :
          /\ given' = [data |-> data, name |-> name]
          /\ file' = NewRawFile(data, name)
    /\ UNCHANGED <<image, channels, clamped, call, ret, made, flipped>>

\* file.pack(), lines 122-129
Pack ==
    /\ call.pc = "idle"
    /\ ret = NoRet
    /\ file # NoFile
    /\ made.op = "none"
    /\ ret' = [op |-> "pack", arg |-> [file |-> file], res |-> pack(file)]
    /\ UNCHANGED <<image, channels, clamped, call, made, flipped, file, given>>

\* The lengths asked of packWithPadding: from one less than the packed file
\* takes to MaxPad more.
RequiredLengths(rawFile) ==
    LET packed == pack(rawFile)
        n == IF packed.ok THEN Len(packed.bytes) ELSE 0
    IN  (n - 1)..(n + MaxPad)

\* file.packWithPadding(requiredLength), lines 141-148
PackWithPadding ==
    /\ call.pc = "idle"
    /\ ret = NoRet
    /\ file # NoFile
    /\ made.op = "none"
    /\ \E requiredLength \in RequiredLengths(file) :
          ret' = [op |-> "packWithPadding",
                  arg |-> [file |-> file, requiredLength |-> requiredLength],
                  res |-> packWithPadding(file, requiredLength)]
    /\ UNCHANGED <<image, channels, clamped, call, made, flipped, file, given>>

\* RawFile.fromPacked(packed) on the bytes the last pack or packWithPadding
\* returned, lines 53-70: the file unpacked is the file at hand from here on.
FromPacked ==
    /\ call.pc = "idle"
    /\ ret.op \in {"pack", "packWithPadding"}
    /\ ret.res.ok
    /\ made.op = "none"
    /\ \E unpacked \in {fromPacked(ret.res.bytes)} :
          /\ ret' = [op |-> "fromPacked", arg |-> ret.res.bytes, res |-> unpacked]
          /\ file' = IF unpacked.ok THEN unpacked.file ELSE file
    /\ made' = [op |-> ret.op, file |-> ret.arg.file, key |-> 0, bitsTaken |-> 1,
                data |-> ret.res.bytes, earlier |-> 0]
    /\ UNCHANGED <<image, channels, clamped, call, flipped, given>>

\* hide(file, key, bitsTaken) of the file at hand, lines 224-227
HideFile ==
    /\ call.pc = "idle"
    /\ ret = NoRet
    /\ file # NoFile
    /\ made.op = "none"
    /\ channels = image
    /\ \E bitsTaken \in BitsInputs, key \in Keys : HideCall(file, key, bitsTaken)
    /\ UNCHANGED <<image, channels, clamped, made, flipped, file, given>>

\* The images of SpecPack: of no pixel and of one pixel.
InitPack == InitWith(0..1, {[kind |-> "zero", clamped |-> FALSE]})

NextPack ==
    \/ NewFile
    \/ Pack
    \/ PackWithPadding
    \/ FromPacked
    \/ HideFile
    \/ Forget

SpecPack == InitPack /\ [][NextPack]_vars

(***************************************************************************)
(* SpecUnpack: RawFile.fromPacked on any bytes, not only on packed files.  *)
(***************************************************************************)
\* The byte values of the buffers unpacked: the lengths 0, 1 and 2 and the
\* letter a.
PackedBytes == {0, 1, 2, 97}

PackedInputs == SeqsUpTo(PackedBytes, MaxPacked)

\* RawFile.fromPacked(packed) on a buffer of the caller's, lines 53-70
FromPackedBytes ==
    /\ call.pc = "idle"
    /\ ret = NoRet
    /\ \E packed \in PackedInputs :
          ret' = [op |-> "fromPacked", arg |-> packed, res |-> fromPacked(packed)]
    /\ UNCHANGED <<image, channels, clamped, call, made, flipped, file, given>>

InitUnpack == InitWith({0}, {[kind |-> "zero", clamped |-> FALSE]})

NextUnpack ==
    \/ FromPackedBytes
    \/ Forget

SpecUnpack == InitUnpack /\ [][NextUnpack]_vars

(***************************************************************************)
(* SpecAgain: hide on pixels an earlier hide has written.  The image a     *)
(* hide exported is opened and hidden into again; its pixels are those of  *)
(* the written buffer, which is also what a StegImage whose reset() does   *)
(* nothing (src/test/index.js 37) hides into the next time.                *)
(***************************************************************************)
\* hide on the image an earlier hide exported, lines 224-227
HideAgain ==
    /\ call.pc = "idle"
    /\ ret = NoRet
    /\ made.op = "hide"
    /\ made.earlier + 1 < MaxHides
    /\ channels = image
    /\ \E bitsTaken \in BitsInputs, key \in Keys :
          /\ CapacityOf(bitsTaken) <= MaxCapacity
          /\ \E rawFile \in HideFiles(CapacityOf(bitsTaken)) :
                HideCall(rawFile, key, bitsTaken)
    /\ UNCHANGED <<image, channels, clamped, made, flipped, file, given>>

\* StegImage.fromBytesOrURL(url) on the URL the later hide resolved with, lines
\* 170-180
OpenAgain ==
    /\ call.pc = "idle"
    /\ ret.op = "hide"
    /\ ret.res.ok
    /\ made.op = "hide"
    /\ image' = ret.res.url
    /\ channels' = ret.res.url
    /\ made' = [op |-> ret.op, file |-> ret.arg.file, key |-> ret.arg.key,
                bitsTaken |-> IntOf(ret.arg.bitsTaken), data |-> ret.arg.data,
                earlier |-> made.earlier + 1]
    /\ ret' = NoRet
    /\ UNCHANGED <<clamped, call, flipped, file, given>>

\* The images of SpecAgain: the smallest on which a file fits with bitsTaken 7,
\* on which one fits with bitsTaken 8 too.
InitAgain == InitWith({MinFitPixels(7)}, Buffers)

NextAgain ==
    \/ Hide
    \/ EncryptDone
    \/ ToBlobDone
    \/ Open
    \/ HideAgain
    \/ OpenAgain
    \/ Reveal
    \/ Forget

SpecAgain == InitAgain /\ [][NextAgain]_vars

(***************************************************************************)
(* The claims.                                                             *)
(***************************************************************************)
\* C1: reveal(key) on the image a successful hide(file, key, bitsTaken)
\* exported returns a file with the name and the content bytes of the file
\* hidden, for every image, bitsTaken, key, file that fits and random filler.
C1_HideRevealRoundTrip ==
    (made.op = "hide" /\ flipped = -1 /\ ret.op = "reveal" /\ ret.arg = made.key)
        => /\ ret.res.ok
           /\ ret.res.file.name = made.file.name
           /\ ret.res.file.data = made.file.data

\* C2: calcCapacity(b) on a buffer of L channels returns
\* bits = ((L - 4) / 4) * 3 * b and bytes = floor(bits / 8), for every b in
\* 1..8; for L = 16 that is bits 9 * b, with bytes 1 for b = 1 and bytes 9 for
\* b = 8.  The channel values and the payload do not enter the result.
C2_CapacityFormula ==
    (ret.op = "calcCapacity" /\ ret.arg.den = 1 /\ ret.arg.num \in 1..8)
        => LET L == Len(channels)
               b == ret.arg.num
           IN  /\ ret.res.ok
               /\ 4 * ret.res.capacity.bits = (L - 4) * 3 * b
               /\ 8 * ret.res.capacity.bytes <= ret.res.capacity.bits
               /\ ret.res.capacity.bits < 8 * ret.res.capacity.bytes + 8
               /\ L = 16 => /\ ret.res.capacity.bits = 9 * b
                            /\ b = 1 => ret.res.capacity.bytes = 1
                            /\ b = 8 => ret.res.capacity.bytes = 9

\* C2 witness: calcCapacity(8) has returned {bits: 72, bytes: 9} on a buffer of
\* 16 channels whose values an earlier call has changed.
C2_Witness ==
    /\ ret.op = "calcCapacity"
    /\ ret.arg = Int1(8)
    /\ Len(channels) = 16
    /\ channels # image
    /\ ret.res = [ok |-> TRUE, capacity |-> [bits |-> 72, bytes |-> 9]]

\* C3: hide(file, key, b), called with a valid b and a valid name, fails with
\* FileTooLarge or LengthTooSmall exactly when
\* capacity(L, b).bytes - 28 < 1 + name_len + 4 + content_len; the failing step
\* is the call itself, before encrypt is awaited, and it leaves every channel
\* as it was.
C3_OversizeRejection ==
    /\ [](ret.op = "hide" /\ validateBits(ret.arg.bitsTaken)
            => LET capacity == calcCapacity(Len(channels),
                                            IntOf(ret.arg.bitsTaken)).bytes
                   needed == 1 + Len(utf8ToBytes(ret.arg.file.name)) + 4
                             + Len(ret.arg.file.data)
               IN  (~ret.res.ok /\ ret.res.err \in {"FileTooLarge", "LengthTooSmall"})
                       <=> capacity - ENCRYPTED_METADATA_SIZE < needed)
    /\ [](call.pc # "idle" /\ call.op = "hide"
            => call.capacity - ENCRYPTED_METADATA_SIZE
                   >= 1 + Len(utf8ToBytes(call.file.name)) + 4 + Len(call.file.data))
    /\ [][(/\ ret' # ret
           /\ ret'.op = "hide"
           /\ ~ret'.res.ok
           /\ ret'.res.err \in {"FileTooLarge", "LengthTooSmall"})
              => call.pc = "idle" /\ call'.pc = "idle" /\ channels' = channels]_vars

\* C3 witness: a hide has failed with LengthTooSmall on a file one byte longer
\* than fits, on an image on which the file one byte shorter fits.
C3_Witness ==
    /\ ret.op = "hide"
    /\ ret.res = Thrown("LengthTooSmall")
    /\ Len(ret.arg.file.data) > 0
    /\ calcCapacity(Len(channels), IntOf(ret.arg.bitsTaken)).bytes - ENCRYPTED_METADATA_SIZE
           = Len(utf8ToBytes(ret.arg.file.name)) + 4 + Len(ret.arg.file.data)
    /\ channels = image

\* C4: fromPacked(pack()) and fromPacked(packWithPadding(n)), for every n the
\* packed file fits, return a file with the name and the content bytes of the
\* file packed, for every name of 1..255 UTF-8 bytes and every content.
C4_PackedRoundTrip ==
    ret.op = "fromPacked"
        => /\ ret.res.ok
           /\ ret.res.file.name = made.file.name
           /\ ret.res.file.data = made.file.data

\* C5: on an exported image in which one bit of the stored ciphertext blob has
\* been flipped, reveal fails with the authentication error of the AEAD, with
\* the key of the hide as with any other; it returns no file.
C5_TamperDetection ==
    (made.op = "hide" /\ flipped # -1 /\ ret.op = "reveal")
        => ret.res = Thrown("AuthenticationFailed")

\* C5 witness: reveal with the key of the hide has failed on an image written
\* with bitsTaken 7 in which a bit of the ciphertext proper, after the iv and
\* before the tag, was flipped.
C5_Witness ==
    /\ made.op = "hide"
    /\ made.bitsTaken = 7
    /\ flipped >= 8 * IV_SIZE
    /\ flipped < 8 * (Len(made.data) - TAG_SIZE)
    /\ ret.op = "reveal"
    /\ ret.arg = made.key
    /\ ret.res = Thrown("AuthenticationFailed")

\* C6: in every hide that passes the size check the plaintext handed to encrypt
\* is capacity(L, b).bytes - 28 bytes long and the ciphertext hidden
\* capacity(L, b).bytes bytes long, and no hide fails with the error of a
\* ciphertext of another length.
C6_FullCapacityFill ==
    /\ call.pc = "encrypt"
          => Len(call.data) = calcCapacity(Len(channels), IntOf(call.bitsTaken)).bytes
                              - ENCRYPTED_METADATA_SIZE
    /\ (call.pc = "toBlob" /\ call.op = "hide")
          => Len(call.data) = calcCapacity(Len(channels), IntOf(call.bitsTaken)).bytes
    /\ made.op = "hide" => Len(made.data) = calcCapacity(Len(image), made.bitsTaken).bytes
    /\ ret.op = "hide" => ret.res # Thrown("EncryptionSizeMismatch")

\* C6 witness: a hide of a file with content, shorter than the room for it, has
\* written its ciphertext and waits for the export.
C6_Witness ==
    /\ call.pc = "toBlob"
    /\ call.op = "hide"
    /\ call.file.size > 0
    /\ 1 + Len(utf8ToBytes(call.file.name)) + 4 + call.file.size
           < call.capacity - ENCRYPTED_METADATA_SIZE
    /\ Len(call.data) = call.capacity

\* C7: revealBlob() on the buffer a hideBlob(payload, b) has written, be it the
\* working buffer before its reset or the image exported, returns
\* capacity(L, b).bytes bytes, the first of which are the payload, for every
\* image of at least one pixel, b, payload that fits and random filler.
C7_BlobRoundTrip ==
    LET written == IF call.pc = "toBlob" THEN call.op = "hideBlob"
                   ELSE made.op = "hideBlob"
        bitsTaken == IF call.pc = "toBlob" THEN IntOf(call.bitsTaken) ELSE made.bitsTaken
        payload == IF call.pc = "toBlob" THEN call.data ELSE made.data
        L == Len(channels)
    IN  (written /\ ret.op = "revealBlob" /\ L >= 4)
            => /\ ret.res.ok
               /\ 4 * 8 * Len(ret.res.bytes) <= (L - 4) * 3 * bitsTaken
               /\ (L - 4) * 3 * bitsTaken < 4 * 8 * (Len(ret.res.bytes) + 1)
               /\ Len(payload) <= Len(ret.res.bytes)
               /\ SubSeq(ret.res.bytes, 1, Len(payload)) = payload

\* C7 witness: revealBlob has returned, on the image exported, more bytes than
\* the payload of 2 bytes or more that a hideBlob with bitsTaken 3 wrote.
C7_Witness ==
    /\ made.op = "hideBlob"
    /\ made.bitsTaken = 3
    /\ Len(made.data) >= 2
    /\ made.data # Zeros(Len(made.data))
    /\ ret.op = "revealBlob"
    /\ ret.res.ok
    /\ Len(ret.res.bytes) > Len(made.data)
    /\ SubSeq(ret.res.bytes, 1, Len(made.data)) = made.data

\* C8: a step that leaves the length of the buffer and its channels 0, 1 and 2
\* as they are, whatever it does to the other channels, leaves the result of
\* revealBitsTaken as it is.
C8_HeaderIndependence ==
    [][(/\ Len(channels') = Len(channels)
        /\ \A i \in 0..2 : Get(channels', i) = Get(channels, i))
          => revealBitsTaken(channels') = revealBitsTaken(channels)]_vars

\* C8 witness: revealBitsTaken has returned, on a buffer that differs from the
\* image in channel 3 and in no header channel, what it returns on the image.
C8_Witness ==
    /\ ret.op = "revealBitsTaken"
    /\ Len(channels) = Len(image)
    /\ Len(channels) >= 8
    /\ Get(channels, 3) # Get(image, 3)
    /\ \A i \in 0..2 : Get(channels, i) = Get(image, i)
    /\ ret.res = revealBitsTaken(image)
    /\ ret.res.ok
    /\ ret.res.bitsTaken = 6

\* C9: calcCapacity, hideBlob and hide fail with BitsOutOfRange on every
\* bitsTaken that is not an integer of 1..8 and on no other; the failing call
\* leaves every channel as it was.
C9_BitsValidation ==
    /\ [](ret.op \in {"calcCapacity", "hideBlob", "hide"}
            => LET bitsTaken == IF ret.op = "calcCapacity" THEN ret.arg
                                ELSE ret.arg.bitsTaken
               IN  ret.res = Thrown("BitsOutOfRange")
                       <=> ~(\E n \in 1..8 : bitsTaken.num = n * bitsTaken.den))
    /\ [](call.pc # "idle"
            => \E n \in 1..8 : call.bitsTaken.num = n * call.bitsTaken.den)
    /\ [][(ret' # ret /\ ret'.res = Thrown("BitsOutOfRange"))
              => channels' = channels /\ call' = call]_vars

\* C9 witness: hideBlob has failed with BitsOutOfRange on bitsTaken 3/2.
C9_Witness ==
    /\ ret.op = "hideBlob"
    /\ ret.arg.bitsTaken = [num |-> 3, den |-> 2]
    /\ Len(ret.arg.data) > 0
    /\ ret.res = Thrown("BitsOutOfRange")
    /\ channels = image
    /\ Len(channels) >= 8

\* C10, as the spec states it: pack, packWithPadding and hide of the RawFile
\* constructed from (content, name) fail with InvalidName if the name is empty
\* or longer than 255 UTF-8 bytes, and on no other name.
C10_NameValidation ==
    (/\ ret.op \in {"pack", "packWithPadding", "hide"}
     /\ ret.op = "hide" => validateBits(ret.arg.bitsTaken))
        => (ret.res = Thrown("InvalidName")
               <=> (given.name = <<>> \/ Len(utf8ToBytes(given.name)) > 255))

\* C10, amended: pack, packWithPadding and hide of the RawFile constructed from
\* (content, name) fail with InvalidName exactly if the name is longer than
\* 255 UTF-8 bytes; constructed from the empty name the file is named
\* file-<size>.file, and packing it does not fail with InvalidName.
C10_NameValidationConstructed ==
    (/\ ret.op \in {"pack", "packWithPadding", "hide"}
     /\ ret.op = "hide" => validateBits(ret.arg.bitsTaken))
        => /\ ret.res = Thrown("InvalidName") <=> Len(utf8ToBytes(given.name)) > 255
           /\ ret.arg.file.name = IF given.name = <<>>
                                  THEN <<102, 105, 108, 101, 45>>
                                       \o <<48 + Len(given.data)>>
                                       \o <<46, 102, 105, 108, 101>>
                                  ELSE given.name
           /\ ret.op = "pack" => (ret.res.ok <=> Len(utf8ToBytes(given.name)) <= 255)

\* C10 witness: pack has returned the packed file of a RawFile constructed from
\* some content and the empty name.
C10_Witness ==
    /\ ret.op = "pack"
    /\ given.name = <<>>
    /\ Len(given.data) > 0
    /\ ret.res.ok
    /\ ret.arg.file.name # <<>>

\* C11: fromPacked fails with CorruptHeader on every buffer whose name_len is 0
\* or whose name_len + 5 + content_len exceeds its length, and the content it
\* returns is content_len bytes long.  content_len is the 4-byte field after
\* the name; on a buffer too short to hold the field the sum exceeds the
\* length whatever the field would be.
C11_CorruptRejection ==
    ret.op = "fromPacked"
        => LET packed == ret.arg
               name_len == Get(packed, 0)
               hasField == Len(packed) >= 1 + name_len + 4
               content_len == IF hasField THEN Uint32At(packed, 1 + name_len) ELSE 0
           IN  /\ (name_len = 0 \/ name_len + 5 + content_len > Len(packed))
                      => ret.res = Thrown("CorruptHeader")
               /\ ret.res.ok => Len(ret.res.file.data) = content_len

\* C12: packWithPadding(requiredLength) of a file that pack() packs into n
\* bytes returns, for every requiredLength >= n, requiredLength bytes: the n
\* bytes of pack(), which are the name's length in 1 byte, the name, the
\* content's length in 4 bytes, most significant first, and the content,
\* followed by bytes 0 only; for every requiredLength < n it fails with
\* LengthTooSmall.
C12_PaddingLayout ==
    (ret.op = "packWithPadding" /\ pack(ret.arg.file).ok)
        => LET rawFile == ret.arg.file
               requiredLength == ret.arg.requiredLength
               name == utf8ToBytes(rawFile.name)
               size == Len(rawFile.data)
               layout == <<Len(name)>> \o name
                         \o <<size \div 16777216, (size \div 65536) % 256,
                              (size \div 256) % 256, size % 256>>
                         \o rawFile.data
               n == Len(pack(rawFile).bytes)
           IN  /\ pack(rawFile).bytes = layout
               /\ requiredLength >= n
                     => /\ ret.res.ok
                        /\ Len(ret.res.bytes) = requiredLength
                        /\ SubSeq(ret.res.bytes, 1, n) = layout
                        /\ \A i \in (n + 1)..requiredLength : ret.res.bytes[i] = 0
               /\ requiredLength < n => ret.res = Thrown("LengthTooSmall")

\* C12 witness: packWithPadding has returned a file of 2 content bytes and a
\* name of 2 characters, one of them of 3 UTF-8 bytes, with 2 bytes of padding.
C12_Witness ==
    /\ ret.op = "packWithPadding"
    /\ ret.res.ok
    /\ ret.arg.file.name = <<97, 8364>>
    /\ ret.arg.file.data = <<255, 0>>
    /\ ret.arg.requiredLength = Len(pack(ret.arg.file).bytes) + 2
    /\ ret.res.bytes = <<4, 97, 226, 130, 172, 0, 0, 0, 2, 255, 0, 0, 0>>

\* C13: in a hideBlob on a buffer of L >= 4 channels, with bitsTaken in 1..8
\* and a payload that fits, writeChannel is called once on each non-alpha
\* channel, in increasing order of index and on no index >= L, through the
\* header, payload, flush and trailing phases; the trailing loop ends with the
\* cursor at L, and no hideBlob or hide fails with CursorMismatch.
C13_CursorAccounting ==
    /\ call.pc = "toBlob"
          => LET L == Len(channels)
                 writes == call.writes
             IN  /\ Len(writes) = 3 * (L \div 4)
                 /\ \A k \in 1..Len(writes) :
                       /\ writes[k].id = 4 * ((k - 1) \div 3) + ((k - 1) % 3)
                       /\ writes[k].id < L
                       /\ ~isAlpha(writes[k].id)
                       /\ k > 1 => writes[k - 1].id < writes[k].id
                 /\ \A i \in 0..(L - 1) :
                       ~isAlpha(i)
                           => Cardinality({k \in 1..Len(writes) : writes[k].id = i}) = 1
    /\ ret.op \in {"hideBlob", "hide"} => ret.res # Thrown("CursorMismatch")
    /\ (/\ ret.op = "hideBlob"
        /\ validateBits(ret.arg.bitsTaken)
        /\ Len(ret.arg.data) <= CapacityOf(ret.arg.bitsTaken)
        /\ ~ret.res.ok)
          => ret.res.err \in {"NoContext", "RoundtripVerificationFailed", "NoBlob"}

\* C13 witness: a hideBlob with bitsTaken 3 of 1 byte, which takes 2 channels
\* and a flushed third, has written the 12 non-alpha channels of a buffer of
\* 16 and waits for the export.
C13_Witness ==
    /\ call.pc = "toBlob"
    /\ call.op = "hideBlob"
    /\ call.bitsTaken = Int1(3)
    /\ Len(call.data) = 1
    /\ Len(channels) = 16
    /\ [k \in 1..Len(call.writes) |-> call.writes[k].id]
           = <<0, 1, 2, 4, 5, 6, 8, 9, 10, 12, 13, 14>>

\* C14: a hideBlob with bitsTaken b leaves the three bits of b - 1, most
\* significant first, in the least significant bit of channels 0, 1 and 2 and
\* the other 7 bits of these channels as they were; its header phase is the
\* writes at 0, 1 and 2, after which the cursor is 4; revealBitsTaken returns b
\* on the buffer written and on the image exported from it, for every b in
\* 1..8 and every buffer.
C14_HeaderEncoding ==
    /\ call.pc = "toBlob"
          => LET b == IntOf(call.bitsTaken)
             IN  /\ Get(channels, 0) % 2 = ((b - 1) \div 4) % 2
                 /\ Get(channels, 1) % 2 = ((b - 1) \div 2) % 2
                 /\ Get(channels, 2) % 2 = (b - 1) % 2
                 /\ \A i \in 0..2 : Get(channels, i) \div 2 = Get(image, i) \div 2
                 /\ \A k \in 1..3 : call.writes[k].id = k - 1 /\ call.writes[k].bits = 1
                 /\ Len(call.writes) > 3 => call.writes[4].id = 4
                 /\ Len(call.writes) = 3 => Len(channels) = 4
                 /\ revealBitsTaken(channels) = [ok |-> TRUE, bitsTaken |-> b]
    /\ (made.op \in {"hideBlob", "hide"} /\ ret.op = "revealBitsTaken")
          => ret.res = [ok |-> TRUE, bitsTaken |-> made.bitsTaken]

\* C14 witness: revealBitsTaken has returned 3 on the image exported by a
\* hideBlob with bitsTaken 3 on a buffer that began 37, 74, 111, whose bits
\* 1, 0, 1 the header 0, 1, 0 has replaced.
C14_Witness ==
    /\ made.op = "hideBlob"
    /\ made.bitsTaken = 3
    /\ ret.op = "revealBitsTaken"
    /\ ret.res = [ok |-> TRUE, bitsTaken |-> 3]
    /\ SubSeq(channels, 1, 3) = <<36, 75, 110>>

\* C15: revealBlob reads channels from index 4 on, the low bitsTaken bits of
\* each non-alpha channel and nothing at an alpha index, up to the end of the
\* buffer: it reads no index >= L, and the bits it accumulates are
\* capacity(L, bitsTaken).bits = 3 * ((L - 4) / 4) * bitsTaken in all.
C15_ReadAlphaSkipping ==
    (ret.op = "revealBlob" /\ ret.res.ok)
        => LET L == Len(channels)
               bitsTaken == revealBitsTaken(channels).bitsTaken
               reads == ret.res.reads
           IN  /\ \A k \in 1..Len(reads) :
                     /\ reads[k] >= 4
                     /\ ~isAlpha(reads[k])
                     /\ reads[k] < L
               /\ Len(reads) * bitsTaken = calcCapacity(L, bitsTaken).bits
               /\ 4 * Len(reads) * bitsTaken = 3 * (L - 4) * bitsTaken

\* C16: the step in which a hideBlob with bitsTaken b writes the buffer leaves
\* its length, the upper 7 bits of channels 0, 1 and 2 and the upper 8 - b
\* bits of every non-alpha channel from index 4 on as they were, and every
\* value it passes to writeChannel is below 2^width.
C16_HideBlobFrame ==
    [][(call.pc # "toBlob" /\ call'.pc = "toBlob")
          => LET b == IntOf(call'.bitsTaken)
             IN  /\ Len(channels') = Len(channels)
                 /\ \A i \in 0..2 : Get(channels', i) \div 2 = Get(channels, i) \div 2
                 /\ \A i \in 4..(Len(channels) - 1) :
                       ~isAlpha(i)
                           => Get(channels', i) \div Pow2(b) = Get(channels, i) \div Pow2(b)
                 /\ \A k \in 1..Len(call'.writes) :
                       /\ call'.writes[k].data >= 0
                       /\ call'.writes[k].data < Pow2(call'.writes[k].bits)
                       /\ call'.writes[k].bits = IF k <= 3 THEN 1 ELSE b]_vars

\* C16 witness: a hideBlob with bitsTaken 3 has written a buffer of 16
\* channels that held 255 everywhere: a non-alpha channel from index 4 on has
\* lost some of its low 3 bits and kept its upper 5, channel 0 has lost its
\* least significant bit and kept the others.
C16_Witness ==
    /\ call.pc = "toBlob"
    /\ call.op = "hideBlob"
    /\ call.bitsTaken = Int1(3)
    /\ image = Repeat(255, 16)
    /\ Get(channels, 0) = 254
    /\ \E i \in 4..14 : Get(channels, i) # 255 /\ Get(channels, i) \div 8 = 31

\* C17: in the buffer a hideBlob has written, and in the image exported from
\* it, every alpha channel, the first pixel's included, holds the same value
\* whatever it held before: 0 on a Uint8Array, where the 256 stored wraps, and
\* 255 on a Uint8ClampedArray; no call of writeChannel, for the header, the
\* payload or the filler, is at an alpha index.
C17_AlphaSentinel ==
    LET sentinel == IF clamped THEN 255 ELSE 0
        blank(px) == \A i \in 0..(Len(px) - 1) : isAlpha(i) => Get(px, i) = sentinel
    IN  /\ call.pc = "toBlob"
              => /\ Len(channels) >= 4
                 /\ blank(channels)
                 /\ \A k \in 1..Len(call.writes) : ~isAlpha(call.writes[k].id)
        /\ made.op \in {"hideBlob", "hide"} => blank(image)

\* C17 witness: a hideBlob has written a Uint8Array of 16 channels that held
\* 255 everywhere, and its four alpha channels hold 0.
C17_Witness ==
    /\ call.pc = "toBlob"
    /\ call.op = "hideBlob"
    /\ ~clamped
    /\ image = Repeat(255, 16)
    /\ \A i \in {3, 7, 11, 15} : Get(channels, i) = 0

\* C18: in a hideBlob of n bytes with bitsTaken b, the payload takes
\* (8 * n) div b full channels; if k = (8 * n) mod b is not 0 the call draws one
\* random byte and makes one more write, of the k last payload bits above the
\* b - k first bits of that byte, and b - k <= 7; if k is 0 there is no such
\* write.  The writes that follow are the trailing filler, one draw each.  No
\* call fails with either guard error of the flush.
C18_PartialFlush ==
    /\ (call.pc = "toBlob" /\ call.op = "hideBlob")
          => LET b == IntOf(call.bitsTaken)
                 n == Len(call.data)
                 full == (8 * n) \div b
                 k == (8 * n) % b
                 flush == IF k = 0 THEN 0 ELSE 1
                 writes == call.writes
                 trailing == Len(writes) - 3 - full - flush
             IN  /\ trailing >= 0
                 /\ b - k <= IF k = 0 THEN 8 ELSE 7
                 /\ \A m \in 1..full :
                       writes[3 + m].data = PayloadBits(call.data, (m - 1) * b, b)
                 /\ \E seed \in Seeds :
                       /\ k # 0
                            => writes[3 + full + 1].data
                                   = PayloadBits(call.data, full * b, k) * Pow2(b - k)
                                     + RandomByte(seed, 0) \div Pow2(8 - (b - k))
                       /\ \A j \in 1..trailing :
                             writes[3 + full + flush + j].data
                                 = RandomByte(seed, flush + j - 1) % Pow2(b)
    /\ ret.op \in {"hideBlob", "hide"}
          => /\ ret.res # Thrown("NeedMoreRandomBits")
             /\ ret.res # Thrown("BufBitsMismatch")

\* C18 witness: a hideBlob with bitsTaken 3 of the byte 10101010 has written
\* 101 and 010, flushed 10 with the first bit, 1, of the random byte 166, and
\* gone on with the low 3 bits of the next random byte, 203.
C18_Witness ==
    /\ call.pc = "toBlob"
    /\ call.op = "hideBlob"
    /\ call.bitsTaken = Int1(3)
    /\ call.data = <<170>>
    /\ Len(channels) = 16
    /\ call.writes[4].data = 5
    /\ call.writes[5].data = 2
    /\ call.writes[6].data = 5
    /\ call.writes[7].data = 3

\* C19: a hide (through its hideBlob) goes on to the export only if the buffer
\* re-decoded from the canvas equals the written buffer in every channel; it
\* fails with RoundtripVerificationFailed only if some channel differs, and
\* then no export is pending and the call has returned no URL.
C19_ExportVerification ==
    /\ call.pc = "toBlob"
          => /\ Len(call.canvas) = Len(channels)
             /\ \A i \in 0..(Len(channels) - 1) : Get(call.canvas, i) = Get(channels, i)
    /\ (/\ ret.op \in {"hide", "hideBlob"}
        /\ ~ret.res.ok
        /\ ret.res.err = "RoundtripVerificationFailed")
          => /\ \E i \in 0..(Len(channels) - 1) :
                   Get(ret.res.vchannels, i) # Get(channels, i)
             /\ call.pc = "idle"
             /\ "url" \notin DOMAIN ret.res
    /\ (ret.op \in {"hide", "hideBlob"} /\ ret.res.ok)
          => /\ "url" \in DOMAIN ret.res
             /\ Len(ret.res.url) = Len(image)

\* C19 witness: a hide has failed the verification on an image of 255s in a
\* Uint8Array: the canvas returned colour 0 under the alpha 0 where a written
\* channel is not 0; the written buffer is still in place.
C19_Witness ==
    /\ ret.op = "hide"
    /\ ~ret.res.ok
    /\ ret.res.err = "RoundtripVerificationFailed"
    /\ ~clamped
    /\ Get(image, 0) = 255
    /\ channels # image
    /\ \E i \in 0..(Len(channels) - 1) :
          Get(ret.res.vchannels, i) = 0 /\ Get(channels, i) # 0

C21_LastWriterWins ==
    (made.op = "hide" /\ made.earlier >= 1 /\ ret.op = "reveal" /\ ret.arg = made.key)
        => /\ ret.res.ok
           /\ ret.res.file.name = made.file.name
           /\ ret.res.file.data = made.file.data

\* C22: whenever no hide or hideBlob call is in progress on the StegImage, its
\* working buffer equals the pixels of its source image: a call that has
\* written the buffer resets it before it settles, be it with a URL, with a
\* failed verification, with a missing context or with a missing blob.
C22_BufferRestored ==
    call.pc = "idle" => channels = image

\* C23: calcCapacity(b) returns bits >= 0 and bytes >= 0 on every buffer whose
\* length is a multiple of 4, the empty one included, for every b in 1..8.
C23_CapacityNonNegative ==
    (ret.op = "calcCapacity" /\ ret.res.ok)
        => /\ ret.res.capacity.bits >= 0
           /\ ret.res.capacity.bytes >= 0

=============================================================================
